---- MODULE Spec2Model ----
(***************************************************************************)
(* Playback sequencer of the shadowing player (function component App).    *)
(*                                                                         *)
(* App is a React function component.  Every render evaluates the body of  *)
(* App again, so stopPlayback, scheduleNext, speakSentence, handlePlay and *)
(* the onClick handlers are new closures over the values the state hooks   *)
(* had in that render.  A handler invoked by the user runs the closure of  *)
(* the latest render.  A timer callback, an utterance callback or the      *)
(* continuation of an await runs the closure of the render in which it     *)
(* was created, whatever the state is by then.  The model keeps, with each *)
(* pending callback, the values it closed over (a record "clo").           *)
(* The refs (audioRef, synth, timerRef, speakTimeoutRef, audioCache) are   *)
(* shared by all renders.                                                   *)
(*                                                                         *)
(* Timers are untimed: a pending timer may fire at any later step.  rate   *)
(* and pauseDuration only set speeds and delays and are left out, as are   *)
(* uttr (written, never read) and audio.currentTime.  A URL is identified  *)
(* with the sentence it was synthesized for.                               *)
(***************************************************************************)
EXTENDS Integers, Sequences, FiniteSets, Bags, TLC

(* ---------------------------- bounds ---------------------------------- *)
\* the user actions (clicks, edits) of one session
MaxActions == 4

(* --------------------------- sentence splitting ------------------------ *)
Terminators == {".", "!", "?", "\n"}
WhiteSpace == {" ", "\n"}

\* String.prototype.trim
RECURSIVE TrimLeft(_)
TrimLeft(s) ==
    IF s # <<>> /\ Head(s) \in WhiteSpace THEN TrimLeft(Tail(s)) ELSE s

RECURSIVE TrimRight(_)
TrimRight(s) ==
    IF s # <<>> /\ s[Len(s)] \in WhiteSpace
    THEN TrimRight(SubSeq(s, 1, Len(s) - 1)) ELSE s

Trim(s) == TrimRight(TrimLeft(s))

\* txt.match(/[^.!?\n]+[.!?\n]?/g): the matches from position p on
RECURSIVE MatchAll(_, _)
MatchAll(txt, p) ==
    IF p > Len(txt) THEN <<>>
    ELSE IF txt[p] \in Terminators THEN MatchAll(txt, p + 1)
    ELSE LET stops == {q \in p..Len(txt) : txt[q] \in Terminators}
             e == IF stops = {} THEN Len(txt)
                  ELSE CHOOSE q \in stops : \A r \in stops : q <= r
         IN <<SubSeq(txt, p, e)>> \o MatchAll(txt, e + 1)

RECURSIVE DropEmpty(_)
DropEmpty(ss) ==
    IF ss = <<>> THEN <<>>
    ELSE IF Head(ss) = <<>> THEN DropEmpty(Tail(ss))
    ELSE <<Head(ss)>> \o DropEmpty(Tail(ss))

splitSentences(txt) ==
    IF txt = <<>> THEN <<>>
    ELSE LET m == MatchAll(txt, 1)
             parts == IF m = <<>> THEN <<txt>> ELSE m
         IN DropEmpty([k \in 1..Len(parts) |-> Trim(parts[k])])

\* a split that would keep the white space around the sentences
untrimmedSentences(txt) ==
    IF txt = <<>> THEN <<>>
    ELSE LET m == MatchAll(txt, 1)
         IN DropEmpty(IF m = <<>> THEN <<txt>> ELSE m)

\* the splitSentences local to the text effect of App, applied to text
enSentences(txt) ==
    IF txt = <<>> THEN <<>>
    ELSE LET m == MatchAll(txt, 1)
             parts == IF m = <<>> THEN <<txt>> ELSE m
         IN DropEmpty([k \in 1..Len(parts) |-> Trim(parts[k])])

(* ------------------------------ inputs --------------------------------- *)
\* two sentences, like the text the component starts with
DEFAULT_TEXT == <<"a", ".", " ", "b", ".">>
\* the texts the user may load: three sentences, one shared with the
\* default text; and the empty text
OtherText == <<"b", ".", " ", "c", "!", "d">>
Texts == {DEFAULT_TEXT, OtherText, <<>>}

TTSProviders == {"browser", "gemini", "doubao"}

\* loadingAudioIndex = null
Null == -1
\* audioRef.current.src not set
NoSrc == <<>>
\* a ref that holds no pending timer
NoTimer == [kind |-> "none"]

(* ------------------------------- state --------------------------------- *)
VARIABLES
    text,               \* useState(DEFAULT_TEXT)
    pairs,              \* useState<SentencePair[]>: the sentences, in order
    settings,           \* settings.ttsProvider
    isPlaying,          \* useState(false)
    currentIndex,       \* useState(0)
    autoLoop,           \* useState(false)
    loadingAudioIndex,  \* useState<number | null>(null)
    audio,              \* audioRef.current: [src, state]
    synthQueue,         \* the utterance queue of window.speechSynthesis
    timerRef,           \* the pending timer timerRef.current names
    speakTimeoutRef,    \* the pending timer speakTimeoutRef.current names
    strayTimers,        \* pending timers that no ref names (a bag)
    tasks,              \* suspended speakSentence calls (a bag)
    audioCache,         \* audioCache.current: the sentences that have a URL
    actions,            \* how many user actions there have been
    stopped,            \* observation: paused, and no play/seek since
    scen,               \* observation: play, then navigation, then renders
    failed,             \* observation: a synthesis failed, no user step since
    ev                  \* the step that led to this state (observation)

\* the speech service (aiService): persistent cache, raw-audio calls, batch
VARIABLES
    cacheStorage,       \* the Cache API store TTS_CACHE_NAME: key -> bytes
    doubaoVoice,        \* settings.doubaoVoice
    fetches,            \* fetchRawAudio calls waiting for the network
    batch,              \* the generateFullTextAudio call
    done,               \* observation: the request fields of the successes
    res                 \* observation: what the last service step did

\* one callDoubaoTTS call of the V3 WebSocket adapter
VARIABLES
    socket,             \* the WebSocket: readyState, failing, frames sent
    audioChunks,        \* the audio blocks pushed so far
    hasError,           \* the flag of the same name
    promise,            \* the promise callDoubaoTTS returned
    timeoutPending,     \* the timer of the timeout protection is pending
    received            \* observation: the frames onmessage was called with

\* the pure helpers and the one-shot adapters, each applied on its own
VARIABLES
    wav,                \* the last createWavBlob call: arguments and blob
    http,               \* one call of a one-shot adapter (doubao HTTP, gemini)
    split,              \* the last passage split, by the service and by App
    cacheKey            \* the last cache key built, and the URL it is held as

vars == <<text, pairs, settings, isPlaying, currentIndex, autoLoop,
          loadingAudioIndex, audio, synthQueue, timerRef, speakTimeoutRef,
          strayTimers, tasks, audioCache, actions, stopped, scen, failed, ev,
          cacheStorage, doubaoVoice, fetches, batch, done, res,
          socket, audioChunks, hasError, promise, timeoutPending, received,
          wav, http, split, cacheKey>>

utilVars == <<wav, http, split, cacheKey>>

serviceVars == <<cacheStorage, doubaoVoice, fetches, batch, done, res>>

socketVars ==
    <<socket, audioChunks, hasError, promise, timeoutPending, received>>

\* the values the closures of the current render capture
Render ==
    [isPlaying |-> isPlaying, pairs |-> pairs, autoLoop |-> autoLoop,
     ttsProvider |-> settings]

\* in the render of the mount effect that registers audio.onended, pairs is
\* still the initial [] and isPlaying, autoLoop, currentIndex are initial
FirstRender ==
    [isPlaying |-> FALSE, pairs |-> <<>>, autoLoop |-> FALSE,
     currentIndex |-> 0]

\* what one handler run reads and writes
Store ==
    [isPlaying |-> isPlaying, currentIndex |-> currentIndex,
     loadingAudioIndex |-> loadingAudioIndex, audio |-> audio,
     synthQueue |-> synthQueue, timerRef |-> timerRef,
     speakTimeoutRef |-> speakTimeoutRef, strayTimers |-> strayTimers,
     tasks |-> tasks, audioCache |-> audioCache, alert |-> FALSE,
     started |-> NoSrc, failed |-> failed]

\* no play-then-navigate scenario is being observed
Off == [st |-> "off", i |-> Null, j |-> Null, starts |-> <<>>]

\* the render starts since the navigation of the scenario (two at most
\* are kept)
Observe(sc, m) ==
    IF sc.st = "nav" /\ m.started # NoSrc /\ Len(sc.starts) < 2
    THEN [sc EXCEPT !.starts = Append(@, m.started)]
    ELSE sc

\* the steps of the user, as ev names them
UserOps ==
    {"pause", "play", "previous", "next", "seek", "toggleLoop", "setText",
     "saveSettings"}

Commit(m, op, sc) ==
    /\ scen' = Observe(sc, m)
    /\ failed' = IF op.op \in UserOps THEN FALSE ELSE m.failed
    /\ UNCHANGED <<serviceVars, socketVars, utilVars>>
    /\ isPlaying' = m.isPlaying
    /\ currentIndex' = m.currentIndex
    /\ loadingAudioIndex' = m.loadingAudioIndex
    /\ audio' = m.audio
    /\ synthQueue' = m.synthQueue
    /\ timerRef' = m.timerRef
    /\ speakTimeoutRef' = m.speakTimeoutRef
    /\ strayTimers' = m.strayTimers
    /\ tasks' = m.tasks
    /\ audioCache' = m.audioCache
    /\ ev' = [op EXCEPT !.alert = m.alert]

(* ------------------------------ helpers -------------------------------- *)
RECURSIVE SumOver(_, _)
SumOver(B, S) ==
    IF S = {} THEN 0
    ELSE LET x == CHOOSE y \in S : TRUE IN B[x] + SumOver(B, S \ {x})

\* the bag of f[x] for the x of bag B
MapBag(f, B) ==
    LET S == BagToSet(B)
    IN [y \in {f[x] : x \in S} |-> SumOver(B, {x \in S : f[x] = y})]

Pending ==
    BagCardinality(strayTimers) + BagCardinality(tasks) + Len(synthQueue)
    + (IF timerRef = NoTimer THEN 0 ELSE 1)
    + (IF speakTimeoutRef = NoTimer THEN 0 ELSE 1)

\* a timer a ref named is no longer named by it, and still pending
Stray(m, t) ==
    IF t = NoTimer THEN m.strayTimers ELSE m.strayTimers (+) SetToBag({t})

(* ------------------------- platform operations ------------------------- *)
\* synth.current.cancel(): the queue is emptied; the utterance being spoken
\* gets an error event 'interrupted', the queued ones 'canceled', and
\* utterance.onerror sets isPlaying false for any error but 'interrupted'
SynthCancel(m) ==
    [m EXCEPT !.synthQueue = <<>>,
              !.isPlaying = IF Len(m.synthQueue) > 1 THEN FALSE ELSE @]

\* the promise of a play() that has not started rendering yet is rejected
\* when the element is paused or given another source
AbortPlay(B) ==
    MapBag([t \in BagToSet(B) |->
               IF t.stage = "play" THEN [t EXCEPT !.stage = "aborted"] ELSE t],
           B)

\* audioRef.current.pause()
AudioPause(m) ==
    [m EXCEPT !.audio.state = "paused", !.tasks = AbortPlay(@)]

\* audioRef.current.src = url; audioRef.current.play(), for sentence index
AudioPlay(m, url, index) ==
    [m EXCEPT !.audio = [src |-> url, state |-> "starting", index |-> index],
              !.tasks = AbortPlay(@),
              !.started = url]

\* observation: the requests issued before a text replacement
Outdate(m) ==
    [m EXCEPT !.tasks =
         MapBag([t \in BagToSet(@) |-> [t EXCEPT !.old = TRUE]], @)]

\* observation: the requests issued before a stop or a navigation are
\* superseded
Supersede(m) ==
    [m EXCEPT !.tasks =
         MapBag([t \in BagToSet(@) |-> [t EXCEPT !.stale = TRUE]], @)]

(* ------------------------------ handlers ------------------------------- *)
stopPlayback(m) ==
    LET m1 == [m EXCEPT !.isPlaying = FALSE]
        m2 == SynthCancel(m1)
        m3 == AudioPause(m2)
    IN [Supersede(m3) EXCEPT
                  !.timerRef = NoTimer,
                  !.speakTimeoutRef = NoTimer,
                  !.loadingAudioIndex = Null]

scheduleNext(m, completedIndex, clo) ==
    IF clo.autoLoop
    THEN [m EXCEPT !.timerRef = [kind |-> "advance", index |-> completedIndex,
                                 setIndex |-> FALSE, clo |-> clo],
                   !.strayTimers = Stray(m, m.timerRef)]
    ELSE IF completedIndex < Len(clo.pairs) - 1
    THEN [m EXCEPT !.timerRef = [kind |-> "advance",
                                 index |-> completedIndex + 1,
                                 setIndex |-> TRUE, clo |-> clo],
                   !.strayTimers = Stray(m, m.timerRef)]
    ELSE [m EXCEPT !.isPlaying = FALSE, !.currentIndex = 0]

speakSentence(m, index, clo) ==
    IF index >= Len(clo.pairs) \/ index < 0
    THEN [m EXCEPT !.isPlaying = FALSE]
    ELSE
      LET m1 == [AudioPause(SynthCancel(m)) EXCEPT !.timerRef = NoTimer]
          sentence == clo.pairs[index + 1]
          task == [stage |-> "synth", index |-> index, sentence |-> sentence,
                   isPlaying |-> clo.isPlaying, stale |-> FALSE,
                   old |-> FALSE]
      IN IF clo.ttsProvider # "browser"
         THEN LET m2 == [m1 EXCEPT !.loadingAudioIndex = index]
              IN IF sentence \in m2.audioCache
                 THEN IF clo.isPlaying
                      THEN LET m3 == AudioPlay(m2, sentence, index)
                           IN [m3 EXCEPT !.tasks =
                                 @ (+) SetToBag({[task EXCEPT !.stage = "play"]})]
                      ELSE m2
                 ELSE [m2 EXCEPT !.tasks = @ (+) SetToBag({task})]
         ELSE [m1 EXCEPT !.speakTimeoutRef =
                            [kind |-> "speak", index |-> index,
                             setIndex |-> FALSE, clo |-> clo],
                         !.strayTimers = Stray(m1, m1.speakTimeoutRef)]

(* ------------------------- the service's data -------------------------- *)
\* calls of the player into the service, and batch downloads, per session
MaxCalls == 4

MaxBatches == 2

ThirdText == <<"a", " ", "+", "b", "?", "b", ".">>

\* the passages of the history
Passages == {DEFAULT_TEXT, ThirdText}

Range(f) == {f[x] : x \in DOMAIN f}

\* the texts the player asks the service for
Sentences == UNION {Range(splitSentences(p)) : p \in Passages}

\* DEFAULT_SETTINGS.doubaoVoice, and another the user may type
DefaultVoice == <<"v">>

Voices == {DefaultVoice, <<"w", " ", "2">>}

\* speed_ratio 1.0, as the key spells it
Speed == <<"1">>

\* audio bytes a backend may answer with
Payloads == {<<1>>, <<2, 3>>}

NoBytes == <<-1>>

FailedToFetch == "Failed to fetch"

\* what a request to a backend may fail with
Errors == {FailedToFetch, "API Error"}

BrowserError == "Browser TTS does not support raw audio fetching"

\* the message callDoubaoTTS throws in place of 'Failed to fetch'
WorkerHint == "check the token or the worker"

NoError == "none"

NoBatch ==
    [status |-> "idle", texts |-> <<>>, processed |-> 0, buffers |-> <<>>,
     hit |-> NoBytes, progress |-> <<0, 0>>, artifact |-> <<>>,
     error |-> NoError, attempted |-> 0, failure |-> NoError,
     payloads |-> <<>>, origins |-> <<>>]

NoRes ==
    [op |-> "none", text |-> <<>>, voice |-> <<>>, provider |-> "none",
     ret |-> NoBytes, err |-> NoError, net |-> FALSE, count |-> Null]

\* before callDoubaoTTS is called there is no socket and no promise
NoSocket == [readyState |-> "NONE", failing |-> FALSE, sent |-> <<>>]

NoFailure == [name |-> "none", code |-> 0, msg |-> <<>>]

NoPromise ==
    [state |-> "none", bytes |-> NoBytes, error |-> NoFailure, calls |-> 0]

\* before createWavBlob is called
NoWav ==
    [called |-> FALSE, length |-> 0, sampleRate |-> 0, pcmData |-> <<>>,
     whole |-> FALSE, blob |-> <<>>]

\* a response body without the field, and no response at all
NoData == <<-1>>

NoResponse ==
    [ok |-> FALSE, status |-> 0, json |-> FALSE, code |-> 0,
     message |-> <<>>, data |-> NoData]

\* before a one-shot adapter is called; entry is what the cache holds
\* under the key of the call, raced whether another call has stored it
NoHttp ==
    [state |-> "idle", backend |-> "none", keyed |-> TRUE, requests |-> 0,
     response |-> NoResponse, bytes |-> NoBytes, error |-> NoFailure,
     entry |-> <<>>, raced |-> FALSE]

\* before a passage is split
NoSplit == [called |-> FALSE, txt |-> <<>>, service |-> <<>>, app |-> <<>>]

\* before a cache key is built
NoKey ==
    [called |-> FALSE, text |-> <<>>, voice |-> <<>>, speed |-> <<>>,
     key |-> <<>>, url |-> <<>>]

(* --------------------------- initial state ----------------------------- *)
\* after mount: the text effect has split DEFAULT_TEXT, the audio element
\* exists, nothing is pending; the saved settings may name any provider
Init ==
    /\ text = DEFAULT_TEXT
    /\ pairs = enSentences(DEFAULT_TEXT)
    /\ settings \in TTSProviders
    /\ isPlaying = FALSE
    /\ currentIndex = 0
    /\ autoLoop = FALSE
    /\ loadingAudioIndex = Null
    /\ audio = [src |-> NoSrc, state |-> "paused", index |-> Null]
    /\ synthQueue = <<>>
    /\ timerRef = NoTimer
    /\ speakTimeoutRef = NoTimer
    /\ strayTimers = EmptyBag
    /\ tasks = EmptyBag
    /\ audioCache = {}
    /\ actions = 0
    /\ stopped = FALSE
    /\ scen = Off
    /\ failed = FALSE
    /\ ev = [op |-> "mount", alert |-> FALSE]
    /\ cacheStorage = <<>>
    /\ doubaoVoice = DefaultVoice
    /\ fetches = {}
    /\ batch = NoBatch
    /\ done = {}
    /\ res = NoRes
    /\ socket = NoSocket
    /\ audioChunks = <<>>
    /\ hasError = FALSE
    /\ promise = NoPromise
    /\ timeoutPending = FALSE
    /\ received = <<>>
    /\ wav = NoWav
    /\ http = NoHttp
    /\ split = NoSplit
    /\ cacheKey = NoKey

Op(name) == [op |-> name, alert |-> FALSE]

\* a step of the user
User ==
    /\ actions < MaxActions
    /\ actions' = actions + 1

(* ---------------------------- user actions ----------------------------- *)
\* the request speakSentence(index) issues when called by handlePlay
PlayedTask(index) ==
    [stage |-> "synth", index |-> index, sentence |-> pairs[index + 1],
     isPlaying |-> FALSE, stale |-> FALSE, old |-> FALSE]

\* observation: handlePlay would start a cloud synthesis for currentIndex
PlayIssues ==
    /\ ~isPlaying
    /\ settings # "browser"
    /\ currentIndex >= 0 /\ currentIndex < Len(pairs)
    /\ pairs[currentIndex + 1] \notin audioCache

\* the play/pause button
handlePlay ==
    /\ User
    /\ IF isPlaying
       THEN /\ Commit(stopPlayback(Store), Op("pause"), Off)
            /\ stopped' = TRUE
       ELSE /\ Commit(speakSentence([Store EXCEPT !.isPlaying = TRUE],
                                    currentIndex, Render), Op("play"),
                      IF PlayIssues THEN [Off EXCEPT !.st = "played",
                                                     !.i = currentIndex]
                      ELSE Off)
            /\ stopped' = FALSE
    /\ UNCHANGED <<text, pairs, settings, autoLoop>>

\* what the three navigation handlers share: index is the new position
Navigate(index, name) ==
    /\ User
    /\ LET restart == [kind |-> "restart", index |-> index,
                       setIndex |-> FALSE, clo |-> Render]
           m1 == IF isPlaying
                 THEN [stopPlayback(Store) EXCEPT
                          !.strayTimers = @ (+) SetToBag({restart})]
                 ELSE Supersede(Store)
       IN Commit([m1 EXCEPT !.currentIndex = index], Op(name),
                 IF isPlaying /\ scen.st = "played"
                 THEN [scen EXCEPT !.st = "nav", !.j = index]
                 ELSE Off)
    /\ stopped' = FALSE
    /\ UNCHANGED <<text, pairs, settings, autoLoop>>

Min(a, b) == IF a < b THEN a ELSE b
Max(a, b) == IF a > b THEN a ELSE b

previous == Navigate(Max(0, currentIndex - 1), "previous")

next == Navigate(Min(Len(pairs) - 1, currentIndex + 1), "next")

\* a click on the card of sentence index
seek == \E index \in 0..(Len(pairs) - 1) : Navigate(index, "seek")

toggleLoop ==
    /\ User
    /\ autoLoop' = ~autoLoop
    /\ Commit(Store, Op("toggleLoop"), Off)
    /\ UNCHANGED <<text, pairs, settings, stopped>>

\* setText and the effect on [text] that follows the render
setText ==
    \E t \in Texts \ {text} :
        /\ User
        /\ text' = t
        /\ pairs' = enSentences(t)
        /\ Commit([Outdate(stopPlayback([Store EXCEPT !.currentIndex = 0]))
                      EXCEPT !.audioCache = {}], Op("setText"), Off)
        /\ UNCHANGED <<settings, autoLoop, stopped>>

\* onSave of the settings dialog
saveSettings ==
    \E p \in TTSProviders :
        /\ User
        /\ settings' = p
        /\ Commit([Store EXCEPT !.audioCache = {}], Op("saveSettings"), Off)
        /\ UNCHANGED <<text, pairs, autoLoop, stopped>>

(* ------------------------- timers and callbacks ------------------------ *)
PendingTimers ==
    (BagToSet(strayTimers) \cup {timerRef, speakTimeoutRef}) \ {NoTimer}

\* the store once timer t has left the pending timers
Fired(t) ==
    IF t = timerRef THEN [Store EXCEPT !.timerRef = NoTimer]
    ELSE IF t = speakTimeoutRef THEN [Store EXCEPT !.speakTimeoutRef = NoTimer]
    ELSE [Store EXCEPT !.strayTimers = @ (-) SetToBag({t})]

\* the 50 ms timer of previous/next/seek: speakSentence(index)
restartTimer ==
    \E t \in PendingTimers :
        /\ t.kind = "restart"
        /\ Commit(speakSentence(Fired(t), t.index, t.clo), Op("restartTimer"), scen)
        /\ UNCHANGED <<text, pairs, settings, autoLoop, actions, stopped>>

\* the pauseDuration timer of scheduleNext
advanceTimer ==
    \E t \in PendingTimers :
        /\ t.kind = "advance"
        /\ LET m == Fired(t)
               m1 == IF t.setIndex THEN [m EXCEPT !.currentIndex = t.index]
                     ELSE m
           IN Commit(IF t.clo.isPlaying THEN speakSentence(m1, t.index, t.clo)
                     ELSE m, Op("advanceTimer"), scen)
        /\ UNCHANGED <<text, pairs, settings, autoLoop, actions, stopped>>

\* the 50 ms timer of the browser branch: synth.current.speak(utterance)
speakTimer ==
    \E t \in PendingTimers :
        /\ t.kind = "speak"
        /\ Commit([Fired(t) EXCEPT !.synthQueue =
                      Append(@, [index |-> t.index, clo |-> t.clo])],
                  Op("speakTimer"), scen)
        /\ UNCHANGED <<text, pairs, settings, autoLoop, actions, stopped>>

\* utterance.onend: the utterance being spoken finishes
utteranceEnd ==
    /\ synthQueue # <<>>
    /\ LET u == Head(synthQueue)
       IN Commit(scheduleNext([Store EXCEPT !.synthQueue = Tail(@)],
                              u.index, u.clo), Op("utteranceEnd"), scen)
    /\ UNCHANGED <<text, pairs, settings, autoLoop, actions, stopped>>

\* utterance.onerror with an engine error (not 'interrupted')
utteranceError ==
    /\ synthQueue # <<>>
    /\ Commit([Store EXCEPT !.synthQueue = Tail(@), !.isPlaying = FALSE],
              Op("utteranceError"), scen)
    /\ UNCHANGED <<text, pairs, settings, autoLoop, actions, stopped>>

\* generateSpeechUrl resolves: speakSentence continues after the await
synthResolve ==
    \E t \in BagToSet(tasks) :
        /\ t.stage = "synth"
        /\ LET m == [Store EXCEPT !.tasks = @ (-) SetToBag({t}),
                                  !.audioCache = @ \cup {t.sentence}]
           IN Commit(IF t.isPlaying
                     THEN [AudioPlay(m, t.sentence, t.index) EXCEPT !.tasks =
                             @ (+) SetToBag({[t EXCEPT !.stage = "play"]})]
                     ELSE m, Op("synthResolve"),
                     IF scen.st = "played" /\ t = PlayedTask(scen.i)
                     THEN [scen EXCEPT !.st = "resolved"] ELSE scen)
        /\ UNCHANGED <<text, pairs, settings, autoLoop, actions, stopped>>

\* the catch block of speakSentence
Catch(m) ==
    [m EXCEPT !.loadingAudioIndex = Null, !.isPlaying = FALSE, !.alert = TRUE]

\* observation: t is the synthesis call for the sentence being loaded
Loading(t) ==
    /\ t.stage = "synth"
    /\ t.index = loadingAudioIndex
    /\ t.index < Len(pairs)
    /\ t.sentence = pairs[t.index + 1]

\* generateSpeechUrl rejects
synthReject ==
    \E t \in BagToSet(tasks) :
        /\ t.stage = "synth"
        /\ Commit(Catch([Store EXCEPT !.tasks = @ (-) SetToBag({t}),
                                      !.failed = @ \/ Loading(t)]),
                  Op("synthReject"),
                  IF scen.st = "played" /\ t = PlayedTask(scen.i)
                  THEN Off ELSE scen)
        /\ UNCHANGED <<text, pairs, settings, autoLoop, actions, stopped>>

\* audio.play() resolves: rendering has begun
playResolve ==
    \E t \in BagToSet(tasks) :
        /\ t.stage = "play"
        /\ Commit([Store EXCEPT !.tasks = @ (-) SetToBag({t}),
                                !.audio.state = "playing",
                                !.loadingAudioIndex = Null],
                  Op("playResolve"), scen)
        /\ UNCHANGED <<text, pairs, settings, autoLoop, actions, stopped>>

\* audio.play() rejects, interrupted by pause() or by a new source
playReject ==
    \E t \in BagToSet(tasks) :
        /\ t.stage = "aborted"
        /\ Commit(Catch([Store EXCEPT !.tasks = @ (-) SetToBag({t})]),
                  Op("playReject"), scen)
        /\ UNCHANGED <<text, pairs, settings, autoLoop, actions, stopped>>

\* audio.onended, registered by the mount effect
handleAudioEnded ==
    /\ audio.state = "playing"
    /\ Commit(scheduleNext([Store EXCEPT !.audio.state = "ended"],
                           FirstRender.currentIndex, FirstRender),
              Op("audioEnded"), scen)
    /\ UNCHANGED <<text, pairs, settings, autoLoop, actions, stopped>>

\* audio.onerror: the element cannot load or decode its source
handleAudioError ==
    /\ audio.state \in {"starting", "playing"}
    /\ Commit([AudioPause(Store) EXCEPT !.isPlaying = FALSE,
                                        !.loadingAudioIndex = Null,
                                        !.alert = TRUE],
              Op("audioError"), scen)
    /\ UNCHANGED <<text, pairs, settings, autoLoop, actions, stopped>>

Next ==
    \/ handlePlay
    \/ previous
    \/ next
    \/ seek
    \/ toggleLoop
    \/ setText
    \/ saveSettings
    \/ restartTimer
    \/ advanceTimer
    \/ speakTimer
    \/ utteranceEnd
    \/ utteranceError
    \/ synthResolve
    \/ synthReject
    \/ playResolve
    \/ playReject
    \/ handleAudioEnded
    \/ handleAudioError

(* ============================ audioUtils =============================== *)
\* src/unnamed/part_002. A Blob is the sequence of its bytes.

\* the bytes of a PCM buffer, and the length of the longest one built
PcmBytes == {0, 255}

MaxPcm == 3

\* view.setUint32(offset, value, true), with the bytes most significant
\* first
setUint32BigEndian(value) ==
    <<(value \div 16777216) % 256, (value \div 65536) % 256,
      (value \div 256) % 256, value % 256>>

\* view.setUint32(offset, value, true): the four bytes written
setUint32(value) ==
    <<value % 256, (value \div 256) % 256, (value \div 65536) % 256,
      (value \div 16777216) % 256>>

\* view.setUint16(offset, value, true): the two bytes written
setUint16(value) == <<value % 256, (value \div 256) % 256>>

\* the 44 bytes createWavBlob writes for a payload of length bytes
wavHeader(length, sampleRate) ==
    <<82, 73, 70, 70>> \o setUint32(36 + length)
    \o <<87, 65, 86, 69>>
    \o <<102, 109, 116, 32>> \o setUint32(16)
    \o setUint16(1) \o setUint16(1)
    \o setUint32(sampleRate) \o setUint32(sampleRate * 2)
    \o setUint16(2) \o setUint16(16)
    \o <<100, 97, 116, 97>> \o setUint32(length)

\* new Blob([view, pcmData], { type: 'audio/wav' })
createWavBlob(pcmData, sampleRate) ==
    wavHeader(Len(pcmData), sampleRate) \o pcmData

(* ========================= the speech service ========================== *)
\* part_004, lines 1-418. Strings are sequences of one-character strings.
\* What is left out: the credentials (taken as configured), the JSON bodies
\* of the requests, the origin and path of the cache key (constant).

\* an encoding that would leave the text as it is
rawComponent(txt) == txt

\* encodeURIComponent escapes every character but letters, digits and
\* - _ . ! ~ * ' ( ); these are the escaped characters the texts here use
Escapes ==
    (" " :> <<"%", "2", "0">>) @@ ("+" :> <<"%", "2", "B">>)
    @@ ("&" :> <<"%", "2", "6">>) @@ ("%" :> <<"%", "2", "5">>)
    @@ ("=" :> <<"%", "3", "D">>) @@ ("?" :> <<"%", "3", "F">>)
    @@ ("\n" :> <<"%", "0", "A">>)

RECURSIVE encodeURIComponent(_)
encodeURIComponent(txt) ==
    IF txt = <<>> THEN <<>>
    ELSE (IF Head(txt) \in DOMAIN Escapes THEN Escapes[Head(txt)]
          ELSE <<Head(txt)>>) \o encodeURIComponent(Tail(txt))

\* the query of the key: text=<encoded text>&voice=<voice>&speed=<speed>
getCacheKey(txt, voice, speed) ==
    <<"t", "e", "x", "t", "=">> \o encodeURIComponent(txt)
    \o <<"&", "v", "o", "i", "c", "e", "=">> \o voice
    \o <<"&", "s", "p", "e", "e", "d", "=">> \o speed

\* the URL parser, run when the key becomes a Request: in a query it
\* escapes the space (and other characters no key here holds)
RECURSIVE ParseQuery(_)
ParseQuery(q) ==
    IF q = <<>> THEN <<>>
    ELSE (IF Head(q) = " " THEN Escapes[" "] ELSE <<Head(q)>>)
         \o ParseQuery(Tail(q))

\* the pieces of s between the occurrences of sep
RECURSIVE Split(_, _)
Split(s, sep) ==
    IF \A k \in 1..Len(s) : s[k] # sep THEN <<s>>
    ELSE LET k == CHOOSE j \in 1..Len(s) :
                      s[j] = sep /\ \A i \in 1..(j - 1) : s[i] # sep
         IN <<SubSeq(s, 1, k - 1)>> \o Split(SubSeq(s, k + 1, Len(s)), sep)

\* the name (part 1) and the value (part 2) of one name=value piece
Pair(piece) ==
    IF \A k \in 1..Len(piece) : piece[k] # "="
    THEN <<piece, <<>>>>
    ELSE LET k == CHOOSE j \in 1..Len(piece) :
                      piece[j] = "=" /\ \A i \in 1..(j - 1) : piece[i] # "="
         IN <<SubSeq(piece, 1, k - 1), SubSeq(piece, k + 1, Len(piece))>>

\* the character an escape sequence stands for
Unescape(x) == CHOOSE c \in DOMAIN Escapes : Escapes[c] = x

\* application/x-www-form-urlencoded decoding: + is a space, %XX a byte
RECURSIVE FormDecode(_)
FormDecode(s) ==
    IF s = <<>> THEN <<>>
    ELSE IF Head(s) = "+" THEN <<" ">> \o FormDecode(Tail(s))
    ELSE IF /\ Head(s) = "%" /\ Len(s) >= 3
            /\ \E c \in DOMAIN Escapes : Escapes[c] = SubSeq(s, 1, 3)
    THEN <<Unescape(SubSeq(s, 1, 3))>> \o FormDecode(SubSeq(s, 4, Len(s)))
    ELSE <<Head(s)>> \o FormDecode(Tail(s))

NoParam == <<"\n", "null">>

\* a searchParams.get that would not decode the value
rawParamsGet(q, name) ==
    LET pieces == Split(q, "&")
        hits == {k \in 1..Len(pieces) : Pair(pieces[k])[1] = name}
    IN IF hits = {} THEN NoParam
       ELSE Pair(pieces[CHOOSE j \in hits : \A i \in hits : j <= i])[2]

\* url.searchParams.get(name): the decoded value of the first parameter
\* called name, or null
searchParamsGet(q, name) ==
    LET pieces == Split(q, "&")
        hits == {k \in 1..Len(pieces) :
                    pieces[k] # <<>> /\ FormDecode(Pair(pieces[k])[1]) = name}
    IN IF hits = {} THEN NoParam
       ELSE LET k == CHOOSE j \in hits : \A i \in hits : j <= i
            IN FormDecode(Pair(pieces[k])[2])

\* the sequencer is not part of the service's steps
sequencerVars ==
    <<text, pairs, isPlaying, currentIndex, autoLoop, loadingAudioIndex,
      audio, synthQueue, timerRef, speakTimeoutRef, strayTimers, tasks,
      audioCache, stopped, scen, failed, ev>>

\* a call of the application into the service, max of them at most
Call(max) ==
    /\ actions < max
    /\ actions' = actions + 1
    /\ UNCHANGED <<sequencerVars, socketVars, utilVars>>

\* a step that is no such call
Callback == UNCHANGED <<sequencerVars, socketVars, utilVars, actions>>

(* --------------------------- the cache store --------------------------- *)
\* the key as the Cache API holds it
StoredKey(txt, voice) == ParseQuery(getCacheKey(txt, voice, Speed))

\* cache.put(key, response)
Put(c, key, bytes) ==
    [k \in DOMAIN c \cup {key} |-> IF k = key THEN bytes ELSE c[k]]

\* the keys clearUnitCache deletes for the passage fullText
UnitKeys(c, fullText) ==
    LET sentences == splitSentences(fullText)
    IN IF Len(sentences) = 0 THEN {}
       ELSE {k \in DOMAIN c :
               LET cachedText == searchParamsGet(k, <<"t", "e", "x", "t">>)
               IN /\ cachedText # NoParam
                  /\ cachedText # <<>>
                  /\ cachedText \in Range(sentences)}

clearUnitCache ==
    \E fullText \in Passages \cup {<<>>} :
        /\ Call(MaxCalls)
        /\ LET deleted == UnitKeys(cacheStorage, fullText)
           IN /\ cacheStorage' = [k \in DOMAIN cacheStorage \ deleted |->
                                     cacheStorage[k]]
              /\ res' = [NoRes EXCEPT !.op = "clearUnitCache",
                                      !.text = fullText,
                                      !.count = Cardinality(deleted)]
        /\ UNCHANGED <<settings, doubaoVoice, fetches, batch, done>>

clearAllTTSCache ==
    /\ Call(MaxCalls)
    /\ cacheStorage' = <<>>
    /\ res' = [NoRes EXCEPT !.op = "clearAllTTSCache"]
    /\ UNCHANGED <<settings, doubaoVoice, fetches, batch, done>>

\* the settings dialog saves another provider or voice
saveService ==
    \E p \in TTSProviders, v \in Voices :
        /\ Call(IF batch.status = "idle" THEN MaxCalls ELSE MaxBatches)
        /\ <<p, v>> # <<settings, doubaoVoice>>
        /\ settings' = p
        /\ doubaoVoice' = v
        /\ res' = [NoRes EXCEPT !.op = "saveSettings"]
        /\ UNCHANGED <<cacheStorage, fetches, batch, done>>

(* ---------------------------- fetchRawAudio ---------------------------- *)
\* fetchRawAudio(txt) up to its network request, c being the cache store:
\* it throws (browser), returns the cached bytes (doubao, key stored), or
\* sends the request
Begin(c, txt) ==
    IF settings = "browser"
    THEN [kind |-> "throw", bytes |-> NoBytes, err |-> BrowserError]
    ELSE IF /\ settings = "doubao"
            /\ StoredKey(txt, doubaoVoice) \in DOMAIN c
    THEN [kind |-> "hit", bytes |-> c[StoredKey(txt, doubaoVoice)],
          err |-> NoError]
    ELSE [kind |-> "network", bytes |-> NoBytes, err |-> NoError]

\* a call waiting for the network, made for owner
Request(owner, txt) ==
    [owner |-> owner, text |-> txt, voice |-> doubaoVoice,
     provider |-> settings]

\* the fields the observation done is keyed by
Fields(c) == [text |-> c.text, voice |-> c.voice, provider |-> c.provider]

\* the catch block of callDoubaoTTS rewrites 'Failed to fetch'
Thrown(c, e) ==
    IF c.provider = "doubao" /\ e = FailedToFetch THEN WorkerHint ELSE e

\* a merge that would put the later buffers first
RECURSIVE mergeBackwards(_)
mergeBackwards(buffers) ==
    IF buffers = <<>> THEN <<>>
    ELSE mergeBackwards(Tail(buffers)) \o Head(buffers)

\* mergeBuffers: the buffers one after another
RECURSIVE mergeBuffers(_)
mergeBuffers(buffers) ==
    IF buffers = <<>> THEN <<>>
    ELSE Head(buffers) \o mergeBuffers(Tail(buffers))

\* a catch block that would throw an error of its own
Wrap(b, error) ==
    [b EXCEPT !.status = "failed", !.error = "Full Text Generation Error"]

\* the catch block of generateFullTextAudio: log and rethrow
Rethrow(b, error) == [b EXCEPT !.status = "failed", !.error = error]

\* observation: the backend the next buffer of b comes from
From(b, provider) == [b EXCEPT !.origins = Append(@, provider)]

\* buffers.push(buffer); processed++
Push(b, buffer) ==
    [b EXCEPT !.buffers = Append(@, buffer),
              !.payloads = Put(@, b.processed + 1, buffer),
              !.processed = @ + 1]

\* the loop of generateFullTextAudio from its test to the next await, or,
\* past the last text, the merge and the artifact
Advance(b, c) ==
    IF b.processed = Len(b.texts)
    THEN [b EXCEPT !.status = "done",
                   !.artifact =
                      <<[payload |-> mergeBuffers(b.buffers),
                         type |-> IF settings = "doubao" THEN "audio/mp3"
                                  ELSE "audio/wav",
                         blob |-> IF settings = "doubao"
                                  THEN mergeBuffers(b.buffers)
                                  ELSE createWavBlob(mergeBuffers(b.buffers),
                                                     24000)]>>]
    ELSE LET out == Begin(c, b.texts[b.processed + 1])
             b1 == [b EXCEPT !.progress = <<b.processed + 1, Len(b.texts)>>,
                             !.attempted = @ + 1]
         IN IF out.kind = "throw"
            THEN [Rethrow(b1, out.err) EXCEPT !.failure = out.err]
            ELSE IF out.kind = "hit"
            THEN [b1 EXCEPT !.status = "hit", !.hit = out.bytes]
            ELSE [b1 EXCEPT !.status = "waiting"]

\* a batch that would ask for all its remaining texts at once
AwaitedAll(b) ==
    IF b.status = "waiting"
    THEN {Request("batch", b.texts[k]) : k \in (b.processed + 1)..Len(b.texts)}
    ELSE {}

\* the request the batch b waits for
Awaited(b) ==
    IF b.status = "waiting"
    THEN {Request("batch", b.texts[b.processed + 1])}
    ELSE {}

\* one fetchRawAudio call of the player (generateSpeechUrl)
fetchRawAudio ==
    \E txt \in Sentences :
        /\ Call(MaxCalls)
        /\ LET out == Begin(cacheStorage, txt)
               c == Request("speech", txt)
           IN /\ out.kind = "network" => c \notin fetches
              /\ fetches' = IF out.kind = "network" THEN fetches \cup {c}
                            ELSE fetches
              /\ res' = [op |-> "fetchRawAudio", text |-> txt,
                         voice |-> doubaoVoice, provider |-> settings,
                         ret |-> out.bytes, err |-> out.err,
                         net |-> out.kind = "network", count |-> Null]
        /\ UNCHANGED <<settings, doubaoVoice, cacheStorage, batch, done>>

\* the backend answers call c with audio; callDoubaoTTS stores it unless
\* the cache write fails
networkResolve ==
    \E c \in fetches, bytes \in Payloads, stored \in BOOLEAN :
        /\ Callback
        /\ stored => c.provider = "doubao"
        /\ cacheStorage' = IF stored
                           THEN Put(cacheStorage, StoredKey(c.text, c.voice),
                                    bytes)
                           ELSE cacheStorage
        /\ done' = done \cup {Fields(c)}
        /\ batch' = IF c.owner = "batch"
                    THEN Advance(Push(From(batch, c.provider), bytes),
                                 cacheStorage')
                    ELSE batch
        /\ fetches' = (fetches \ {c}) \cup
                      (IF c.owner = "batch" THEN Awaited(batch') ELSE {})
        /\ res' = [NoRes EXCEPT !.op = "networkResolve"]
        /\ UNCHANGED <<settings, doubaoVoice>>

\* the request of call c fails with e
networkReject ==
    \E c \in fetches, e \in Errors :
        /\ Callback
        /\ c.owner = "speech" => e = FailedToFetch
        /\ fetches' = fetches \ {c}
        /\ batch' = IF c.owner = "batch"
                    THEN [Rethrow(batch, Thrown(c, e)) EXCEPT
                             !.failure = Thrown(c, e)]
                    ELSE batch
        /\ res' = [NoRes EXCEPT !.op = "networkReject"]
        /\ UNCHANGED <<settings, doubaoVoice, cacheStorage, done>>

(* ------------------------ generateFullTextAudio ------------------------ *)
\* the sentence lists the download button passes
BatchInputs == {splitSentences(p) : p \in {DEFAULT_TEXT, OtherText, <<>>}}

generateFullTextAudio ==
    \E texts \in BatchInputs :
        /\ Call(MaxBatches)
        /\ batch.status \in {"idle", "done", "failed"}
        /\ batch' = Advance([NoBatch EXCEPT !.texts = texts,
                                            !.status = "running"],
                            cacheStorage)
        /\ fetches' = fetches \cup Awaited(batch')
        /\ res' = [NoRes EXCEPT !.op = "generateFullTextAudio"]
        /\ UNCHANGED <<settings, doubaoVoice, cacheStorage, done>>

\* the batch resumes with the bytes read from the cache
batchHit ==
    /\ Callback
    /\ batch.status = "hit"
    /\ batch' = Advance(Push(From(batch, "doubao"), batch.hit),
                        cacheStorage)
    /\ fetches' = fetches \cup Awaited(batch')
    /\ res' = [NoRes EXCEPT !.op = "batchHit"]
    /\ UNCHANGED <<settings, doubaoVoice, cacheStorage, done>>

\* the cache and the calls of the player
CacheNext ==
    \/ clearUnitCache
    \/ clearAllTTSCache
    \/ saveService
    \/ fetchRawAudio
    \/ networkResolve
    \/ networkReject

\* the batch download
BatchNext ==
    \/ saveService
    \/ generateFullTextAudio
    \/ batchHit
    \/ networkResolve
    \/ networkReject

(* ===================== the V3 WebSocket adapter ======================== *)
\* src/services/aiService.ts, callDoubaoTTS (160-325). Buffers are sequences
\* of bytes. The timer is untimed: it may fire at any moment of the call.
\* The WebSocket follows the WHATWG rules: messages reach onmessage only
\* while readyState is OPEN; a failed connection fires error, then close.

MaxFrames == 2

TimeoutMs == 15000

AudioType == 11

ErrorType == 15

\* n with its least significant byte first
U32LittleEndian(n) ==
    <<n % 256, (n \div 256) % 256, (n \div 65536) % 256,
      (n \div 16777216) % 256>>

\* n as DataView.setUint32(0, n, false) writes it
U32(n) ==
    <<(n \div 16777216) % 256, (n \div 65536) % 256, (n \div 256) % 256,
      n % 256>>

\* header, payload size, payload
Frame(type, payload) ==
    <<17, type * 16, 16, 0>> \o U32(Len(payload)) \o payload

\* event code, session id with its length, audio block with its length
AudioPayload(sid, block) ==
    U32(352) \o U32(Len(sid)) \o sid \o U32(Len(block)) \o block

\* audio frames by their parts: session id, audio block, trailing padding
AudioParts ==
    {<<<<115>>, <<7>>, <<>>>>,
     <<<<>>, <<8, 9>>, <<>>>>,
     <<<<>>, <<>>, <<>>>>,
     <<<<115, 116>>, <<5, 6>>, <<0, 2>>>>}

\* the frames the server may send: the audio frames (one with an empty
\* block, one with padding), one whose block is shorter than declared, one
\* cut before the session id length, an error frame (code 3005, message
\* "err"), an error frame without payload, a frame of another type, a
\* one-byte frame
ServerFrames ==
    {Frame(AudioType, AudioPayload(t[1], t[2]) \o t[3]) : t \in AudioParts}
    \cup
    {Frame(AudioType, U32(352) \o U32(0) \o U32(2) \o <<8>>),
     Frame(AudioType, U32(352)),
     Frame(ErrorType, U32(3005) \o <<101, 114, 114>>),
     Frame(ErrorType, <<>>),
     Frame(9, <<>>),
     <<17>>}

\* the JSON of the request, cut to its braces
RequestJson == <<123, 125>>

\* the JSON of a request with a long text: 300 bytes
LongRequestJson == <<123>> \o [i \in 1..298 |-> 120] \o <<125>>

\* the characters of the bytes TextDecoder meets here
Ascii == (101 :> "e") @@ (114 :> "r")

\* new TextDecoder().decode(bytes); U+FFFD stands for what is not UTF-8
decode(bytes) ==
    [i \in 1..Len(bytes) |->
        IF bytes[i] \in DOMAIN Ascii THEN Ascii[bytes[i]] ELSE "U+FFFD"]

\* view.getUint32(offset, false), for an offset inside the buffer
getUint32(buffer, offset) ==
    buffer[offset + 1] * 16777216 + buffer[offset + 2] * 65536
    + buffer[offset + 3] * 256 + buffer[offset + 4]

\* a DataView read of n bytes at offset throws a RangeError
OutOfBounds(buffer, offset, n) == offset + n > Len(buffer)

Failure(name) == [NoFailure EXCEPT !.name = name]

\* what one handler run reads and writes
Adapter ==
    [socket |-> socket, audioChunks |-> audioChunks, hasError |-> hasError,
     promise |-> promise]

\* the resolve function of the promise: only the first call settles
resolve(a, bytes) ==
    [a EXCEPT !.promise =
        IF @.state = "pending"
        THEN [@ EXCEPT !.state = "resolved", !.bytes = bytes,
                       !.calls = @ + 1]
        ELSE [@ EXCEPT !.calls = @ + 1]]

\* the reject function of the promise
reject(a, error) ==
    [a EXCEPT !.promise =
        IF @.state = "pending"
        THEN [@ EXCEPT !.state = "rejected", !.error = error,
                       !.calls = @ + 1]
        ELSE [@ EXCEPT !.calls = @ + 1]]

\* socket.close(): the closing handshake starts; a connection not yet
\* established is failed
close(a) ==
    IF a.socket.readyState = "CONNECTING"
    THEN [a EXCEPT !.socket.readyState = "CLOSING", !.socket.failing = TRUE]
    ELSE IF a.socket.readyState = "OPEN"
    THEN [a EXCEPT !.socket.readyState = "CLOSING"]
    ELSE a

\* an onmessage that would take all that follows the event code
onmessageRest(a, buffer) ==
    IF Len(buffer) >= 12 /\ buffer[2] \div 16 = AudioType
    THEN [a EXCEPT !.audioChunks = Append(@, SubSeq(buffer, 13, Len(buffer)))]
    ELSE a

\* socket.onmessage; a RangeError ends the handler where it is thrown
onmessage(a, buffer) ==
    IF OutOfBounds(buffer, 1, 1) \/ OutOfBounds(buffer, 4, 4) THEN a
    ELSE LET msgType == buffer[2] \div 16
         IN IF msgType = AudioType
            THEN IF OutOfBounds(buffer, 12, 4) THEN a
                 ELSE LET offset == 16 + getUint32(buffer, 12)
                      IN IF OutOfBounds(buffer, offset, 4) THEN a
                         ELSE LET audioLen == getUint32(buffer, offset)
                              IN IF offset + 4 + audioLen <= Len(buffer)
                                 THEN [a EXCEPT !.audioChunks =
                                         Append(@, SubSeq(buffer, offset + 5,
                                                   offset + 4 + audioLen))]
                                 ELSE a
            ELSE IF msgType = ErrorType
            THEN IF OutOfBounds(buffer, 8, 4) THEN a
                 ELSE reject(close([a EXCEPT !.hasError = TRUE]),
                             [name |-> "Doubao API Error",
                              code |-> getUint32(buffer, 8),
                              msg |-> decode(SubSeq(buffer, 13,
                                                    Len(buffer)))])
            ELSE a

\* socket.onerror
onerror(a) ==
    IF ~a.hasError
    THEN reject([a EXCEPT !.hasError = TRUE],
                Failure("WebSocket connection failed"))
    ELSE a

\* an onclose that would resolve with the last chunk alone
oncloseLast(a) ==
    IF ~a.hasError
    THEN IF Len(a.audioChunks) > 0
         THEN resolve(a, a.audioChunks[Len(a.audioChunks)])
         ELSE reject(a, Failure("Connection closed without audio"))
    ELSE a

\* socket.onclose
onclose(a) ==
    IF ~a.hasError
    THEN IF Len(a.audioChunks) > 0
         THEN resolve(a, mergeBuffers(a.audioChunks))
         ELSE reject(a, Failure("Connection closed without audio"))
    ELSE a

\* a timeout callback that would do nothing
timeoutIdle(a) == a

\* a timeout callback that would give the chunks up
timeoutRejects(a) ==
    IF a.socket.readyState # "CLOSED" /\ ~a.hasError
    THEN reject(close(a), Failure("TTS request timed out"))
    ELSE a

\* the callback of the timeout protection
timeoutCallback(a) ==
    IF a.socket.readyState # "CLOSED"
    THEN LET a1 == close(a)
         IN IF Len(a.audioChunks) > 0 /\ ~a.hasError
            THEN resolve(a1, mergeBuffers(a.audioChunks))
            ELSE IF ~a.hasError
            THEN reject(a1, Failure("TTS request timed out"))
            ELSE a1
    ELSE a

\* a step of the adapter leaves the rest of the program alone
SocketCommit(a) ==
    /\ socket' = a.socket
    /\ audioChunks' = a.audioChunks
    /\ hasError' = a.hasError
    /\ promise' = a.promise
    /\ UNCHANGED <<sequencerVars, serviceVars, utilVars, settings, actions>>

\* callDoubaoTTS(text, settings): without credentials it rejects at once,
\* else it opens the socket and starts the timer
callDoubaoTTS ==
    /\ promise.state = "none"
    /\ \E configured \in BOOLEAN :
         IF configured
         THEN /\ SocketCommit([Adapter EXCEPT
                    !.socket.readyState = "CONNECTING",
                    !.promise.state = "pending"])
              /\ timeoutPending' = TRUE
         ELSE /\ SocketCommit(reject([Adapter EXCEPT
                                         !.promise.state = "pending"],
                                     Failure("credentials missing")))
              /\ timeoutPending' = FALSE
    /\ UNCHANGED received

\* the connection is established: socket.onopen sends the request frame
open ==
    \E requestBytes \in {RequestJson, LongRequestJson} :
        /\ socket.readyState = "CONNECTING"
        /\ SocketCommit([Adapter EXCEPT
              !.socket.readyState = "OPEN",
              !.socket.sent = Append(@, <<17, 16, 16, 0>>
                                        \o U32(Len(requestBytes))
                                        \o requestBytes)])
        /\ UNCHANGED <<timeoutPending, received>>

\* a frame of the server arrives
message ==
    \E buffer \in ServerFrames :
        /\ socket.readyState = "OPEN"
        /\ Len(received) < MaxFrames
        /\ received' = Append(received, buffer)
        /\ SocketCommit(onmessage(Adapter, buffer))
        /\ UNCHANGED timeoutPending

\* the connection fails: error event, then close event
connectionFails ==
    /\ socket.readyState \in {"CONNECTING", "OPEN", "CLOSING"}
    /\ SocketCommit(onclose(onerror([Adapter EXCEPT
                                        !.socket.readyState = "CLOSED"])))
    /\ UNCHANGED <<timeoutPending, received>>

\* the server starts the closing handshake
closingHandshake ==
    /\ socket.readyState = "OPEN"
    /\ SocketCommit([Adapter EXCEPT !.socket.readyState = "CLOSING"])
    /\ UNCHANGED <<timeoutPending, received>>

\* the connection is closed: close event, after an error event when the
\* connection was failed by socket.close()
closed ==
    /\ socket.readyState = "CLOSING"
    /\ LET a == [Adapter EXCEPT !.socket.readyState = "CLOSED"]
       IN SocketCommit(onclose(IF socket.failing THEN onerror(a) ELSE a))
    /\ UNCHANGED <<timeoutPending, received>>

\* the timer fires
timeout ==
    /\ timeoutPending
    /\ timeoutPending' = FALSE
    /\ SocketCommit(timeoutCallback(Adapter))
    /\ UNCHANGED received

SocketNext ==
    \/ callDoubaoTTS
    \/ open
    \/ message
    \/ connectionFails
    \/ closingHandshake
    \/ closed
    \/ timeout

(* ==================== the ws_binary WebSocket adapter =================== *)
\* part_003, callDoubaoTTS (148-248): the same promise, socket, chunks and
\* timer, with handlers of its own and no socket.onclose. Its first lines
\* (148-157) are those of the V3 adapter, the action callDoubaoTTS.

\* a frame of the server: header size 4, type and flags, the payload
BinaryFrame(type, flags, payload) ==
    <<17, type * 16 + flags, 16, 0>> \o payload

\* what the server may send: audio with the flags 0, 1 and 2 (last), with
\* and without bytes, an error frame, a frame of another type, one byte
BinaryFrames ==
    {BinaryFrame(AudioType, flags, pcm) :
        flags \in {0, 1, 2}, pcm \in {<<>>, <<7>>, <<8, 9>>}}
    \cup
    {BinaryFrame(ErrorType, 0, <<101>>), BinaryFrame(9, 0, <<123, 125>>),
     <<17>>}

\* socket.onmessage of the ws_binary adapter
onmessageBinary(a, buffer) ==
    IF OutOfBounds(buffer, 1, 1) THEN a
    ELSE LET headerSize == (buffer[1] % 16) * 4
             msgType == buffer[2] \div 16
             flags == buffer[2] % 16
             audioData == SubSeq(buffer, headerSize + 1, Len(buffer))
         IN IF msgType = AudioType
            THEN LET a1 == IF Len(audioData) > 0
                           THEN [a EXCEPT !.audioChunks = Append(@, audioData)]
                           ELSE a
                 IN IF flags >= 2
                    THEN resolve(close(a1), mergeBuffers(a1.audioChunks))
                    ELSE a1
            ELSE IF msgType = ErrorType
            THEN reject(close(a),
                        [name |-> "Doubao Error", code |-> 0,
                         msg |-> decode(audioData)])
            ELSE a

\* socket.onerror of the ws_binary adapter
onerrorBinary(a) == reject(a, Failure("WebSocket connection failed"))

\* the callback of the safety timeout
timeoutBinary(a) ==
    IF a.socket.readyState # "CLOSED"
    THEN IF Len(a.audioChunks) > 0
         THEN resolve(close(a), mergeBuffers(a.audioChunks))
         ELSE reject(close(a), Failure("TTS Timeout"))
    ELSE a

\* the connection is established: socket.onopen sends header and payload
openBinary ==
    /\ socket.readyState = "CONNECTING"
    /\ SocketCommit([Adapter EXCEPT
          !.socket.readyState = "OPEN",
          !.socket.sent = Append(@, <<17, 16, 16, 0>> \o RequestJson)])
    /\ UNCHANGED <<timeoutPending, received>>

\* a frame of the server arrives
messageBinary ==
    \E buffer \in BinaryFrames :
        /\ socket.readyState = "OPEN"
        /\ Len(received) < MaxFrames
        /\ received' = Append(received, buffer)
        /\ SocketCommit(onmessageBinary(Adapter, buffer))
        /\ UNCHANGED timeoutPending

\* the connection fails: error event, then a close event nobody handles
failsBinary ==
    /\ socket.readyState \in {"CONNECTING", "OPEN", "CLOSING"}
    /\ SocketCommit(onerrorBinary([Adapter EXCEPT
                                     !.socket.readyState = "CLOSED",
                                     !.socket.failing = TRUE]))
    /\ UNCHANGED <<timeoutPending, received>>

\* the connection is closed: a close event nobody handles, after an error
\* event when the connection was failed by socket.close()
closedBinary ==
    /\ socket.readyState = "CLOSING"
    /\ LET a == [Adapter EXCEPT !.socket.readyState = "CLOSED"]
       IN SocketCommit(IF socket.failing THEN onerrorBinary(a) ELSE a)
    /\ UNCHANGED <<timeoutPending, received>>

\* the timer fires
timeoutFires ==
    /\ timeoutPending
    /\ timeoutPending' = FALSE
    /\ SocketCommit(timeoutBinary(Adapter))
    /\ UNCHANGED received

BinaryNext ==
    \/ callDoubaoTTS
    \/ openBinary
    \/ messageBinary
    \/ failsBinary
    \/ closingHandshake
    \/ closedBinary
    \/ timeoutFires

(* ======================= createWavBlob on its own ====================== *)
\* the sample rates: the 24000 of the callers, and others up to 2^30 - 1
SampleRates == {8000, 24000, 44100, 65536, 1073741823}

\* payload lengths too long to build byte by byte, up to 2^31 - 37
LongLengths == {219, 220, 65500, 16777180, 2147483611}

\* the PCM buffers built byte by byte
PcmData == UNION {[1..n -> PcmBytes] : n \in 0..MaxPcm}

\* a step of a helper leaves the rest of the program alone
UtilStep ==
    UNCHANGED <<sequencerVars, serviceVars, socketVars, settings, actions>>

\* createWavBlob(pcmData, sampleRate)
wavOfBuffer ==
    \E pcmData \in PcmData, sampleRate \in SampleRates :
        /\ wav' = [called |-> TRUE, length |-> Len(pcmData),
                   sampleRate |-> sampleRate, pcmData |-> pcmData,
                   whole |-> TRUE,
                   blob |-> createWavBlob(pcmData, sampleRate)]
        /\ UtilStep
        /\ UNCHANGED <<http, split, cacheKey>>

\* createWavBlob on a long buffer: the header alone is kept
wavOfLongBuffer ==
    \E length \in LongLengths, sampleRate \in SampleRates :
        /\ wav' = [called |-> TRUE, length |-> length,
                   sampleRate |-> sampleRate, pcmData |-> <<>>,
                   whole |-> FALSE,
                   blob |-> wavHeader(length, sampleRate)]
        /\ UtilStep
        /\ UNCHANGED <<http, split, cacheKey>>

WavNext ==
    \/ wavOfBuffer
    \/ wavOfLongBuffer

(* ======================= the splitting on its own ====================== *)
\* the characters of the passages split here, and their longest length
Alphabet == {"a", ".", "?", " ", "\n"}

MaxLen == 4

Inputs == UNION {[1..n -> Alphabet] : n \in 0..MaxLen}

\* a passage is split by the service (clearUnitCache, the download) and
\* by the text effect of App; one passage a run
splitPassage ==
    \E txt \in Inputs :
        /\ ~split.called
        /\ split' = [called |-> TRUE, txt |-> txt,
                     service |-> splitSentences(txt),
                     app |-> enSentences(txt)]
        /\ UtilStep
        /\ UNCHANGED <<wav, http, cacheKey>>

(* ======================= the cache key on its own ====================== *)
\* the characters of the texts keyed here, and their longest length
KeyAlphabet == {"2", "0", " ", "%", "&", "+"}

MaxText == 3

KeyTexts == UNION {[1..n -> KeyAlphabet] : n \in 0..MaxText}

\* speed_ratio 1.0 and 1.5, as the template literal spells them
Speeds == {Speed, <<"1", ".", "5">>}

\* getCacheKey(text, voice, speed), and the URL of the Request the Cache
\* API makes of the key; one key a run
buildCacheKey ==
    \E txt \in KeyTexts, voice \in Voices, speed \in Speeds :
        /\ ~cacheKey.called
        /\ cacheKey' = [called |-> TRUE, text |-> txt, voice |-> voice,
                        speed |-> speed,
                        key |-> getCacheKey(txt, voice, speed),
                        url |-> ParseQuery(getCacheKey(txt, voice, speed))]
        /\ UtilStep
        /\ UNCHANGED <<wav, http, split>>

(* ===================== the one-shot adapters alone ===================== *)
\* part_004: callDoubaoTTS (249-352) from its credentials check to its
\* result, the cache taken as missed, and callGeminiTTS (228-246). A text
\* is a sequence of words; the data of a body is the bytes its base64
\* text stands for.

\* the message field of a response body: absent, or some words
Messages ==
    {<<>>, <<"quota", "exceeded">>, <<"upstream", FailedToFetch>>}

\* what fetch may resolve with: a 200 with a JSON body, an error status
\* with or without a JSON body, a 200 whose body is no JSON
Responses ==
    [ok : {TRUE}, status : {200}, json : {TRUE}, code : {3000, 3001, 3050},
     message : Messages, data : {NoData, <<>>, <<1>>, <<2, 3>>}]
    \cup
    {r \in [ok : {FALSE}, status : {401, 500}, json : BOOLEAN, code : {0},
            message : Messages, data : {NoData}] :
        ~r.json => r.message = <<>>}
    \cup
    {[NoResponse EXCEPT !.ok = TRUE, !.status = 200]}

\* e.message.includes(phrase), e.message being the name and the words
includes(e, phrase) ==
    e.name = phrase \/ \E k \in 1..Len(e.msg) : e.msg[k] = phrase

\* the catch block of callDoubaoTTS
catch(e) ==
    IF includes(e, FailedToFetch) THEN Failure(WorkerHint) ELSE e

\* the try block of callDoubaoTTS once fetch has resolved with r
validate(r) ==
    IF ~r.ok
    THEN [throws |-> TRUE, bytes |-> NoBytes,
          error |-> [name |-> "Doubao API Error", code |-> r.status,
                     msg |-> IF r.json THEN r.message ELSE <<>>]]
    ELSE IF ~r.json
    THEN [throws |-> TRUE, bytes |-> NoBytes, error |-> Failure("SyntaxError")]
    ELSE IF r.code # 3000
    THEN [throws |-> TRUE, bytes |-> NoBytes,
          error |-> [name |-> "Doubao API Error", code |-> r.code,
                     msg |-> IF r.message # <<>> THEN r.message
                             ELSE <<"Unknown Error">>]]
    ELSE IF r.data = NoData \/ r.data = <<>>
    THEN [throws |-> TRUE, bytes |-> NoBytes,
          error |-> Failure("No audio data received from Doubao API")]
    ELSE [throws |-> FALSE, bytes |-> r.data, error |-> NoFailure]

\* a store that would add a second entry under the key
cacheAdd(entries, bytes) == Append(entries, bytes)

\* cache.put(cacheKey, resToCache): the entry under the key is replaced
cachePut(entries, bytes) == <<bytes>>

\* the audio another call for the same request stores
OtherAudio == <<4>>

\* the promise of the call settles
Settled(h, out) ==
    IF out.throws
    THEN [h EXCEPT !.state = "rejected", !.error = out.error]
    ELSE [h EXCEPT !.state = "resolved", !.bytes = out.bytes]

HttpCommit(h) ==
    /\ http' = h
    /\ UtilStep
    /\ UNCHANGED <<wav, split, cacheKey>>

\* callDoubaoTTS(text, apiKey, appId, voice) up to its fetch
callDoubaoHTTP ==
    \E keyed \in BOOLEAN :
        /\ http.state # "waiting"
        /\ HttpCommit(
              IF keyed
              THEN [NoHttp EXCEPT !.state = "waiting", !.backend = "doubao",
                                  !.requests = 1]
              ELSE [NoHttp EXCEPT !.state = "rejected", !.backend = "doubao",
                                  !.keyed = FALSE,
                                  !.error = Failure("credentials missing")])

\* callGeminiTTS(text, apiKey) up to its generateContent: getGeminiClient
\* warns when the key is missing and builds the client with a dummy key
callGeminiTTS ==
    \E keyed \in BOOLEAN :
        /\ http.state # "waiting"
        /\ HttpCommit([NoHttp EXCEPT !.state = "waiting",
                                     !.backend = "gemini",
                                     !.keyed = keyed, !.requests = 1])

\* fetch resolves with the response r; the audio of a valid response is
\* stored unless the cache write fails
respond ==
    \E r \in Responses, stored \in BOOLEAN :
        /\ http.state = "waiting" /\ http.backend = "doubao"
        /\ LET out == validate(r)
           IN HttpCommit(
                 IF out.throws
                 THEN Settled([http EXCEPT !.response = r],
                              [out EXCEPT !.error = catch(@)])
                 ELSE Settled([http EXCEPT
                                 !.response = r,
                                 !.entry = IF stored
                                           THEN cachePut(@, out.bytes)
                                           ELSE @],
                              out))

\* while the call waits for fetch, another call for the same text and
\* voice, which missed the cache as well, stores its audio
concurrentPut ==
    /\ http.state = "waiting" /\ http.backend = "doubao"
    /\ ~http.raced
    /\ HttpCommit([http EXCEPT !.entry = cachePut(@, OtherAudio),
                               !.raced = TRUE])

\* fetch rejects (TypeError: Failed to fetch)
fetchFails ==
    /\ http.state = "waiting" /\ http.backend = "doubao"
    /\ HttpCommit([http EXCEPT !.state = "rejected",
                               !.error = catch(Failure(FailedToFetch))])

\* generateContent resolves, with or without inline audio data
geminiAnswers ==
    \E audioContent \in {NoData, <<>>, <<1>>, <<2, 3>>} :
        /\ http.state = "waiting" /\ http.backend = "gemini"
        /\ http.keyed
        /\ HttpCommit(
              IF audioContent = NoData \/ audioContent = <<>>
              THEN [http EXCEPT !.state = "rejected",
                      !.error = Failure("No audio content received from Gemini")]
              ELSE [http EXCEPT !.state = "resolved", !.bytes = audioContent])

\* generateContent rejects (the API refuses the key, the network fails)
geminiFails ==
    /\ http.state = "waiting" /\ http.backend = "gemini"
    /\ HttpCommit([http EXCEPT !.state = "rejected",
                               !.error = Failure("generateContent failed")])

HttpNext ==
    \/ callDoubaoHTTP
    \/ callGeminiTTS
    \/ respond
    \/ concurrentPut
    \/ fetchFails
    \/ geminiAnswers
    \/ geminiFails

(* --------------------------- specifications ---------------------------- *)
\* the playback sequencer; the service is left aside
Spec == Init /\ [][Next]_vars

\* the persistent cache under the calls of the player
CacheSpec == Init /\ [][CacheNext]_vars

\* the batch download over the same service
BatchSpec == Init /\ [][BatchNext]_vars

\* one call of the V3 WebSocket adapter
SocketSpec == Init /\ [][SocketNext]_vars

\* the V3 adapter with its timer: a timer that was set fires; the server
\* and the network owe nothing
TimedSocketSpec == SocketSpec /\ WF_vars(timeout)

\* the ws_binary adapter, its timer firing when set
BinarySpec == Init /\ [][BinaryNext]_vars /\ WF_vars(timeoutFires)

\* createWavBlob over buffers and sample rates
WavSpec == Init /\ [][WavNext]_vars

\* one call at a time of a one-shot adapter
HttpSpec == Init /\ [][HttpNext]_vars

\* the two splitSentences over short passages
SplitSpec == Init /\ [][splitPassage]_vars

\* getCacheKey over short texts
KeySpec == Init /\ [][buildCacheKey]_vars


(* ------------------------- derived predicates -------------------------- *)
\* the unsettled generateSpeechUrl calls of the sequencer
SynthInFlight ==
    SumOver(tasks, {t \in BagToSet(tasks) : t.stage = "synth"})

SpeakTimersPending ==
    SumOver(strayTimers, {t \in BagToSet(strayTimers) : t.kind = "speak"})
    + (IF speakTimeoutRef = NoTimer THEN 0 ELSE 1)

AudioRendering == audio.state \in {"starting", "playing"}

Rendering == AudioRendering \/ synthQueue # <<>>

\* among timers, a delay timer whose callback will set currentIndex to k
\* (when setIndex) and call speakSentence(k)
AdvancePending(timers, k, setIndex) ==
    \E t \in timers :
        /\ t.kind = "advance" /\ t.index = k /\ t.setIndex = setIndex
        /\ t.clo.isPlaying

RestartPending(timers, k) ==
    \E t \in timers : t.kind = "restart" /\ t.index = k

TypeOK ==
    /\ isPlaying \in BOOLEAN
    /\ Pending <= MaxActions

(* ------------------------------- claims -------------------------------- *)
\* C1: cloud backend; after handlePlay at index i and then next, previous
\* or seek to index j before the synthesis for i has resolved, there is one
\* render start, for sentence j, and the result of the request that
\* handlePlay issued for i is never given to the audio element.
SequencerCancellation ==
    scen.st = "nav" =>
        /\ Len(scen.starts) <= 1
        /\ \A k \in 1..Len(scen.starts) : scen.starts[k] = pairs[scen.j + 1]
        /\ \A t \in BagToSet(tasks) :
              (t.index = scen.i /\ ~t.isPlaying) => t.stage = "synth"

\* C2: when a superseded synthesis call settles (a stop, a navigation or
\* a text replacement came after its request), isPlaying,
\* loadingAudioIndex and the audio element stay as they are and no error
\* is shown.
SupersededSettleHasNoEffect ==
    [][\A t \in BagToSet(tasks) :
         (/\ t.stage = "synth" /\ t.stale
          /\ ev'.op \in {"synthResolve", "synthReject"}
          /\ tasks' = tasks (-) SetToBag({t}))
         => (/\ isPlaying' = isPlaying
             /\ loadingAudioIndex' = loadingAudioIndex
             /\ audio' = audio
             /\ ~ev'.alert)]_vars

\* C3: after pause, until a new play, next, previous or seek, isPlaying is
\* false and neither the audio element nor an utterance is rendering.
NothingRendersAfterStop ==
    stopped => ~isPlaying /\ ~Rendering

\* C4: at most one synthesis request of the sequencer is unsettled.
AtMostOneSynthesisInFlight ==
    SynthInFlight <= 1

\* C5: the utterance queue holds at most one utterance, and a speak timer
\* scheduled by an earlier speakSentence is not pending next to a later
\* one.
AtMostOneVoice ==
    /\ Len(synthQueue) <= 1
    /\ SpeakTimersPending <= 1

\* C6: cloud backend; when the synthesis that handlePlay started for
\* currentIndex succeeds and the user has done nothing since, that sentence
\* starts rendering (and loadingAudioIndex is cleared once it plays).
PlayLeadsToRendering ==
    (ev.op = "synthResolve" /\ scen.st = "resolved") =>
        /\ audio.state = "starting"
        /\ audio.src = pairs[scen.i + 1]

\* the index of the sentence whose natural completion this step is
Completed ==
    IF ev'.op = "utteranceEnd" THEN Head(synthQueue).index ELSE audio.index

\* a natural completion of a sentence of the current list, loop mode
\* being now as it was when the sentence was started
NaturalCompletion ==
    \/ /\ ev'.op = "utteranceEnd"
       /\ Head(synthQueue).clo.pairs = pairs
       /\ Head(synthQueue).clo.autoLoop = autoLoop
    \/ /\ ev'.op = "audioEnded"
       /\ audio.index < Len(pairs)
       /\ audio.src = pairs[audio.index + 1]

\* C7: loop mode off; when sentence i < last finishes naturally while the
\* session is playing, the session stays playing and the delayed advance
\* to i+1 (currentIndex = i+1, speakSentence(i+1)) is scheduled.
AutoAdvance ==
    [][(/\ NaturalCompletion /\ isPlaying /\ ~autoLoop
        /\ Completed < Len(pairs) - 1)
       => (isPlaying' /\ AdvancePending(PendingTimers', Completed + 1, TRUE))]_vars

\* C8: loop mode on; when sentence i finishes naturally while the session
\* is playing, currentIndex stays i and the delayed restart of sentence i
\* is scheduled.
LoopCurrent ==
    [][(NaturalCompletion /\ isPlaying /\ autoLoop)
       => (/\ isPlaying'
           /\ currentIndex' = currentIndex
           /\ AdvancePending(PendingTimers', Completed, FALSE))]_vars

\* C9: loop mode off; a natural completion makes the session idle with
\* currentIndex 0 exactly when the completed sentence is the last one; the
\* completion of an earlier sentence leaves isPlaying and currentIndex.
EndOfList ==
    [][(NaturalCompletion /\ ~autoLoop /\ Len(pairs) > 0) =>
         IF Completed = Len(pairs) - 1
         THEN ~isPlaying' /\ currentIndex' = 0
         ELSE isPlaying' = isPlaying /\ currentIndex' = currentIndex]_vars

Navigation == ev'.op \in {"previous", "next", "seek"}

\* C10: next, previous or seek while playing stops the playback and
\* schedules the restart at the new index with isPlaying still true; while
\* idle it changes currentIndex only.
ManualNavigation ==
    [][Navigation =>
         IF isPlaying
         THEN /\ isPlaying'
              /\ ~Rendering'
              /\ RestartPending(PendingTimers', currentIndex')
         ELSE /\ ~isPlaying'
              /\ UNCHANGED <<loadingAudioIndex, audio, synthQueue, timerRef,
                             speakTimeoutRef, strayTimers, audioCache>>
              /\ SynthInFlight' = SynthInFlight]_vars

\* C11: a text replacement rebuilds the sentence list from the new text,
\* sets currentIndex to 0 and isPlaying to false and empties the audio-URL
\* cache; and a synthesis request issued before a replacement, when it
\* resolves, creates no cache entry.
SentenceListReplacement ==
    [][/\ ev'.op = "setText" =>
            /\ pairs' = splitSentences(text')
            /\ currentIndex' = 0
            /\ ~isPlaying'
            /\ audioCache' = {}
       /\ \A t \in BagToSet(tasks) :
            (/\ t.stage = "synth" /\ t.old
             /\ ev'.op = "synthResolve"
             /\ tasks' = tasks (-) SetToBag({t}))
            => (t.sentence \in audioCache' => t.sentence \in audioCache)]_vars

\* C12: when the synthesis call for the sentence being loaded fails, an
\* error is shown, isPlaying is false, loadingAudioIndex is null and
\* currentIndex is unchanged; and from then until the next step of the
\* user no synthesis request is issued.
SynthesisFailure ==
    [][/\ (ev'.op = "synthReject" /\ failed') =>
            /\ ev'.alert
            /\ ~isPlaying'
            /\ loadingAudioIndex' = Null
            /\ currentIndex' = currentIndex
       /\ (failed /\ actions' = actions) =>
            SynthInFlight' <= SynthInFlight]_vars

\* C13: a fetchRawAudio call for a text, voice and cloud provider for
\* which a call has succeeded before sends no network request and returns
\* audio bytes.
IdempotentCaching ==
    [][(/\ res'.op = "fetchRawAudio"
        /\ [text |-> res'.text, voice |-> res'.voice,
            provider |-> res'.provider] \in done)
       => (~res'.net /\ res'.ret # NoBytes)]_vars

\* C14: clearUnitCache(A) removes the entries, under every voice, whose
\* text is a sentence of A and only those, returns their number, and every
\* other entry (such as one of another passage, for a sentence A does not
\* have) keeps its bytes.
CacheInvalidationScoping ==
    [][res'.op = "clearUnitCache" =>
         LET A == Range(splitSentences(res'.text))
         IN /\ \A t \in Sentences, v \in Voices :
                 LET k == StoredKey(t, v)
                 IN IF t \in A
                    THEN k \notin DOMAIN cacheStorage'
                    ELSE k \in DOMAIN cacheStorage =>
                           /\ k \in DOMAIN cacheStorage'
                           /\ cacheStorage'[k] = cacheStorage[k]
            /\ DOMAIN cacheStorage' \subseteq DOMAIN cacheStorage
            /\ res'.count =
                 Cardinality({e \in Sentences \X Voices :
                                /\ e[1] \in A
                                /\ StoredKey(e[1], e[2])
                                      \in DOMAIN cacheStorage})
      ]_vars

\* a clearUnitCache(ThirdText) has removed two entries, one with escaped
\* characters in its text, and an entry of the other passage is left
CacheInvalidationScopingWitness ==
    /\ res.op = "clearUnitCache"
    /\ res.text = ThirdText
    /\ res.count = 2
    /\ DOMAIN cacheStorage # {}

\* C15: a generateFullTextAudio call whose k-th synthesis failed has
\* rejected with the error of that synthesis, has called fetchRawAudio k
\* times and no more, waits for no request, and has produced no artifact.
BatchFailurePropagation ==
    batch.status = "failed" =>
        /\ batch.error = batch.failure
        /\ batch.attempted = batch.processed + 1
        /\ batch.artifact = <<>>
        /\ \A c \in fetches : c.owner # "batch"

\* the second of three sentences has failed
BatchFailurePropagationWitness ==
    /\ batch.status = "failed"
    /\ batch.processed = 1
    /\ Len(batch.texts) = 3

\* the bytes of the payloads 1..n of f, counted
RECURSIVE Total(_, _)
Total(f, n) == IF n = 0 THEN 0 ELSE Total(f, n - 1) + Len(f[n])

\* C16: the payload of the artifact of a generateFullTextAudio call that
\* succeeded is as long as the payloads of its sentences together and
\* holds them at their places in input order; for no sentence it is
\* empty.
BatchOrdering ==
    batch.status = "done" =>
        LET out == batch.artifact[1].payload
            n == Len(batch.texts)
        IN /\ DOMAIN batch.payloads = 1..n
           /\ Len(out) = Total(batch.payloads, n)
           /\ \A i \in 1..n : \A j \in 1..Len(batch.payloads[i]) :
                 out[Total(batch.payloads, i - 1) + j] = batch.payloads[i][j]
           /\ n = 0 => out = <<>>

\* three sentences have been merged, the first two with different payloads
BatchOrderingWitness ==
    /\ batch.status = "done"
    /\ Len(batch.texts) = 3
    /\ batch.payloads[1] # batch.payloads[2]

\* frame f has message type type in the high half of its second byte
HasType(f, type) == Len(f) >= 2 /\ f[2] \div 16 = type

\* a frame of message type 0xF has been given to onmessage
ErrorFrameReceived(frames) ==
    \E k \in 1..Len(frames) : HasType(frames[k], ErrorType)

\* C17: when the timer fires and no frame of type 0xF has arrived, no
\* socket error has occurred and the socket is not closed, socket.close()
\* is called and the promise is resolved with the chunks accumulated so
\* far, or, when there is none, rejected with the timeout error.
StreamingTimeout ==
    [][(/\ timeoutPending /\ ~timeoutPending'
        /\ socket.readyState # "CLOSED"
        /\ ~hasError
        /\ ~ErrorFrameReceived(received))
       => /\ socket'.readyState = "CLOSING"
          /\ IF Len(audioChunks) > 0
             THEN /\ promise'.state = "resolved"
                  /\ promise'.bytes = mergeBuffers(audioChunks)
             ELSE /\ promise'.state = "rejected"
                  /\ promise'.error.name = "TTS request timed out"]_vars

\* the timer has fired on an open socket that had given two chunks: the
\* socket is closing and the promise holds both
StreamingTimeoutWitness ==
    /\ ~timeoutPending
    /\ socket.readyState = "CLOSING"
    /\ promise.state = "resolved"
    /\ promise.bytes = <<7, 8, 9>>

\* C18: resolve and reject are called once per call at most, and a promise
\* rejected by an error frame or a socket error is not resolved afterwards.
SingleSettlement ==
    [][/\ promise'.calls <= 1
       /\ (promise.state = "rejected" /\ hasError)
             => promise'.state = "rejected"]_vars

\* the audio block of frame f, by the layout: header 4, payload size 4,
\* event code 4, session id length 4, session id, block length 4, block
Layouts(f) ==
    {l \in (0..Len(f)) \X (0..Len(f)) :
        /\ HasType(f, AudioType)
        /\ Len(f) >= 20 + l[1] + l[2]
        /\ SubSeq(f, 13, 16) = U32(l[1])
        /\ SubSeq(f, 17 + l[1], 20 + l[1]) = U32(l[2])}

\* the blocks of the frames that have one, in the order of the frames
RECURSIVE Blocks(_)
Blocks(frames) ==
    IF frames = <<>> THEN <<>>
    ELSE LET f == Head(frames)
         IN IF Layouts(f) = {} THEN Blocks(Tail(frames))
            ELSE LET l == CHOOSE x \in Layouts(f) : TRUE
                 IN SubSeq(f, 21 + l[1], 20 + l[1] + l[2])
                    \o Blocks(Tail(frames))

\* C19: when the connection closes and no frame of type 0xF has arrived
\* and no socket error has occurred, the promise is resolved with the
\* audio blocks of the audio frames received, in receipt order; it is
\* rejected when no audio frame was received.
ChunkAssembly ==
    [][(/\ socket.readyState # "CLOSED" /\ socket'.readyState = "CLOSED"
        /\ ~hasError'
        /\ ~ErrorFrameReceived(received))
       => IF \E k \in 1..Len(received) : Layouts(received[k]) # {}
          THEN /\ promise'.state = "resolved"
               /\ promise'.bytes = Blocks(received)
          ELSE (\A k \in 1..Len(received) :
                   ~HasType(received[k], AudioType))
               => promise'.state = "rejected"]_vars

\* the connection has closed after two audio frames and the promise holds
\* their blocks in receipt order
ChunkAssemblyWitness ==
    /\ socket.readyState = "CLOSED"
    /\ ~hasError
    /\ timeoutPending
    /\ promise.state = "resolved"
    /\ promise.bytes = <<8, 9, 7>>

\* C20: when a frame of type 0xF arrives, the promise is rejected with an
\* error that carries the code of bytes 8-11 of the frame and the decoded
\* message that follows, socket.close() is called, and from then on the
\* promise is never resolved.
ErrorFrame ==
    [][/\ (/\ Len(received') = Len(received) + 1
           /\ HasType(received'[Len(received')], ErrorType))
          => /\ promise'.state = "rejected"
             /\ socket'.readyState = "CLOSING"
             /\ SubSeq(received'[Len(received')], 9, 12)
                   = U32(promise'.error.code)
             /\ promise'.error.msg
                   = decode(SubSeq(received'[Len(received')], 13,
                                   Len(received'[Len(received')])))
       /\ ErrorFrameReceived(received') => promise'.state # "resolved"]_vars

\* C21: the promise of the V3 adapter is never resolved with a byte array
\* of length zero.
NoEmptySuccess == promise.state = "resolved" => Len(promise.bytes) > 0

\* the reads of onmessage on buffer, in the order the handler makes them:
\* one of them is out of the bounds of the buffer (a RangeError)
Throws(buffer) ==
    \/ OutOfBounds(buffer, 1, 1)
    \/ OutOfBounds(buffer, 4, 4)
    \/ /\ buffer[2] \div 16 = AudioType
       /\ \/ OutOfBounds(buffer, 12, 4)
          \/ OutOfBounds(buffer, 16 + getUint32(buffer, 12), 4)
    \/ /\ buffer[2] \div 16 = ErrorType
       /\ OutOfBounds(buffer, 8, 4)

\* C22: onmessage raises no exception on any frame, and a frame that has
\* not the bytes its length fields declare adds nothing to audioChunks.
FrameDecodingNeverThrows ==
    [][Len(received') = Len(received) + 1
       => /\ ~Throws(received'[Len(received')])
          /\ Layouts(received'[Len(received')]) = {}
                => audioChunks' = audioChunks]_vars

\* C23: for an audio frame made of a session id, an audio block and
\* trailing padding, what onmessage appends to audioChunks is the audio
\* block, byte for byte.
ExactAudioExtraction ==
    [][\A t \in AudioParts :
          (/\ Len(received') = Len(received) + 1
           /\ received'[Len(received')]
                 = Frame(AudioType, AudioPayload(t[1], t[2]) \o t[3]))
          => audioChunks' = Append(audioChunks, t[2])]_vars

\* the frame with a two-byte session id and two bytes of padding has been
\* received after another audio frame, and its block is the second chunk
ExactAudioExtractionWitness ==
    /\ Len(received) = 2
    /\ received[2] = Frame(AudioType,
                           AudioPayload(<<115, 116>>, <<5, 6>>) \o <<0, 2>>)
    /\ audioChunks = <<<<8, 9>>, <<5, 6>>>>

\* the unsigned 32-bit little-endian number at bytes offset..offset+3
Field32(bytes, offset) ==
    bytes[offset + 1] + 256 * bytes[offset + 2] + 65536 * bytes[offset + 3]
    + 16777216 * bytes[offset + 4]

\* C24: createWavBlob gives 44 bytes of header followed by the payload;
\* read as little-endian 32-bit numbers, bytes 4-7 are 36 + N, bytes 40-43
\* are N, bytes 24-27 are the sample rate R and bytes 28-31 are 2R.
WavHeaderCorrectness ==
    wav.called =>
        /\ Len(wav.blob) >= 44
        /\ Field32(wav.blob, 4) = 36 + wav.length
        /\ Field32(wav.blob, 40) = wav.length
        /\ Field32(wav.blob, 24) = wav.sampleRate
        /\ Field32(wav.blob, 28) = 2 * wav.sampleRate
        /\ wav.whole =>
              /\ Len(wav.blob) = 44 + wav.length
              /\ SubSeq(wav.blob, 45, Len(wav.blob)) = wav.pcmData

\* a blob of three payload bytes at 24000 Hz has been made
WavHeaderCorrectnessWitness ==
    /\ wav.called
    /\ wav.whole
    /\ wav.pcmData = <<0, 255, 0>>
    /\ wav.sampleRate = 24000
    /\ SubSeq(wav.blob, 1, 8) = <<82, 73, 70, 70, 39, 0, 0, 0>>
    /\ SubSeq(wav.blob, 25, 32) = <<192, 93, 0, 0, 128, 187, 0, 0>>

\* the artifact a of a batch starts with the 44 bytes of a WAV header
Wrapped(a) ==
    /\ Len(a.blob) = 44 + Len(a.payload)
    /\ SubSeq(a.blob, 1, 4) = <<82, 73, 70, 70>>
    /\ SubSeq(a.blob, 9, 12) = <<87, 65, 86, 69>>

\* C25: the artifact of generateFullTextAudio carries the WAV header when
\* its bytes come from the PCM backend (gemini), and is the bare bytes
\* typed audio/mp3 when they come from the MP3 backend (doubao), also when
\* the provider is saved while the call is in flight.
ContainerMatchesOrigin ==
    (batch.status = "done" /\ batch.origins # <<>>) =>
        LET a == batch.artifact[1]
        IN /\ (\A k \in 1..Len(batch.origins) : batch.origins[k] = "gemini")
                 => a.type = "audio/wav" /\ Wrapped(a)
           /\ (\A k \in 1..Len(batch.origins) : batch.origins[k] = "doubao")
                 => a.type = "audio/mp3" /\ a.blob = a.payload

\* C26: the buffers of one generateFullTextAudio batch all come from the
\* same backend, whatever is saved in the settings meanwhile.
NoMixedFormats ==
    \A j, k \in 1..Len(batch.origins) : batch.origins[j] = batch.origins[k]

\* C27: a call made without credentials is rejected with the
\* configuration error and has sent no request.
MissingCredentials ==
    ~http.keyed =>
        /\ http.requests = 0
        /\ http.state = "rejected"
        /\ http.error.name = "credentials missing"

\* C28: when the one-shot HTTP adapter gets a successful response whose
\* body code is not 3000, the call is rejected with an error that holds
\* that code and the message of the body; the call is resolved only when
\* the code is 3000 and the data field is not empty.
ApplicationLevelValidation ==
    (http.backend = "doubao" /\ http.state \in {"resolved", "rejected"}) =>
        LET r == http.response
        IN /\ (r.ok /\ r.json /\ r.code # 3000) =>
                 /\ http.state = "rejected"
                 /\ http.error.code = r.code
                 /\ r.message # <<>> => http.error.msg = r.message
           /\ http.state = "resolved" =>
                 /\ r.ok /\ r.json /\ r.code = 3000
                 /\ r.data # NoData /\ r.data # <<>>
                 /\ http.bytes = r.data

\* the characters of s that are no white space, in order
RECURSIVE NonWhite(_)
NonWhite(s) ==
    IF s = <<>> THEN <<>>
    ELSE (IF Head(s) \in WhiteSpace THEN <<>> ELSE <<Head(s)>>)
         \o NonWhite(Tail(s))

\* the sentences of ss one after another
RECURSIVE Flat(_)
Flat(ss) == IF ss = <<>> THEN <<>> ELSE Head(ss) \o Flat(Tail(ss))

\* C29: splitSentences(t) gives, in the order of t, sentences that are not
\* empty and neither start nor end with white space; no character of t
\* other than white space is missing from them; the empty text gives no
\* sentence, and a text without terminator gives the one sentence trim(t).
SentenceSplittingRule ==
    split.called =>
        LET t == split.txt
            out == split.service
        IN /\ \A k \in 1..Len(out) :
                 /\ out[k] # <<>>
                 /\ out[k][1] \notin WhiteSpace
                 /\ out[k][Len(out[k])] \notin WhiteSpace
           /\ NonWhite(Flat(out)) = NonWhite(t)
           /\ t = <<>> => out = <<>>
           /\ ((\A i \in 1..Len(t) : t[i] \notin Terminators)
                  /\ Trim(t) # <<>>)
                 => out = <<Trim(t)>>

\* C30: for every passage the sentence list App builds equals the list
\* clearUnitCache derives, and the cache entry made for any sentence of
\* the list, under any voice, is among those clearUnitCache removes.
SharedSplittingRule ==
    split.called =>
        /\ split.app = split.service
        /\ \A k \in 1..Len(split.app), v \in Voices :
              LET key == StoredKey(split.app[k], v)
              IN key \in UnitKeys(Put(<<>>, key, <<1>>), split.txt)

\* a passage of two sentences, the second without terminator, has been
\* split
SharedSplittingRuleWitness ==
    /\ split.called
    /\ split.txt = <<"a", "?", " ", "a">>
    /\ split.app = <<<<"a", "?">>, <<"a">>>>

\* C36: currentIndex is a position of the sentence list, and 0 when the
\* list is empty.
IndexValidity ==
    IF Len(pairs) > 0
    THEN 0 <= currentIndex /\ currentIndex < Len(pairs)
    ELSE currentIndex = 0

\* C37: while the audio element or an utterance is rendering, or a timer
\* of a delayed advance is pending, isPlaying is true.
StateFlagConsistency ==
    (Rendering \/ \E t \in PendingTimers : t.kind = "advance") => isPlaying

\* C38: the sentence the audio element or the utterance queue is
\* rendering is the sentence at currentIndex of the current list.
RenderedSentenceMatchesIndex ==
    /\ AudioRendering =>
          /\ 0 <= currentIndex /\ currentIndex < Len(pairs)
          /\ audio.src = pairs[currentIndex + 1]
    /\ synthQueue # <<>> =>
          /\ Head(synthQueue).index = currentIndex
          /\ Head(synthQueue).clo.pairs = pairs

\* C39: when loop mode has just been toggled while an utterance of the
\* current list was being spoken, the completion of the utterance follows
\* the loop mode of that moment: with loop mode on the repeat of the same
\* sentence is scheduled; with loop mode off the advance to the next
\* sentence, or after the last sentence the session becomes idle at
\* index 0.
LoopModeReadAtCompletion ==
    [][(/\ ev.op = "toggleLoop"
        /\ ev'.op = "utteranceEnd"
        /\ Head(synthQueue).clo.pairs = pairs
        /\ Head(synthQueue).clo.autoLoop # autoLoop)
       => LET i == Head(synthQueue).index
          IN IF autoLoop
             THEN \E t \in PendingTimers' :
                     t.kind = "advance" /\ t.index = i /\ ~t.setIndex
             ELSE IF i < Len(pairs) - 1
             THEN \E t \in PendingTimers' :
                     t.kind = "advance" /\ t.index = i + 1 /\ t.setIndex
             ELSE ~isPlaying' /\ currentIndex' = 0]_vars

\* C35: a frame is sent when the connection opens and at no other
\* moment, one frame a connection; it is the bytes 0x11 0x10 0x10 0x00,
\* the length of the payload as a 4-byte big-endian number, and the JSON
\* payload, 8 + payload length bytes in all.
OutboundRequestFraming ==
    [][/\ Len(socket'.sent) <= 1
       /\ IF socket.readyState = "CONNECTING" /\ socket'.readyState = "OPEN"
          THEN /\ Len(socket'.sent) = Len(socket.sent) + 1
               /\ LET frame == socket'.sent[Len(socket'.sent)]
                  IN /\ Len(frame) >= 8
                     /\ SubSeq(frame, 1, 4) = <<17, 16, 16, 0>>
                     /\ getUint32(frame, 4) = Len(frame) - 8
                     /\ SubSeq(frame, 9, Len(frame))
                           \in {RequestJson, LongRequestJson}
          ELSE socket'.sent = socket.sent]_vars

\* the connection is open and the frame of the long request, 308 bytes
\* with the length 300 = 0x012C, is the one frame sent
OutboundRequestFramingWitness ==
    /\ socket.readyState = "OPEN"
    /\ Len(socket.sent) = 1
    /\ Len(socket.sent[1]) = 308
    /\ SubSeq(socket.sent[1], 5, 8) = <<0, 0, 1, 44>>

\* the requests of the batch download that are in flight
BatchRequests(f) == {c \in f : c.owner = "batch"}

\* C34: the batch download has at most one request in flight, the one for
\* the text after those processed; onProgress is called with (k, n) for
\* k = 1, 2, ... in this order, once each, call k after request k - 1 has
\* resolved and before request k is issued, and a download that completes
\* has made the n calls.
SequentialBatch ==
    [][/\ Cardinality(BatchRequests(fetches')) <= 1
       /\ BatchRequests(fetches') # {} =>
             /\ batch'.status = "waiting"
             /\ batch'.attempted = batch'.processed + 1
             /\ \A c \in BatchRequests(fetches') :
                   c.text = batch'.texts[batch'.attempted]
       /\ batch'.attempted > 0 =>
             batch'.progress = <<batch'.attempted, Len(batch'.texts)>>
       /\ batch'.status = "done" =>
             /\ batch'.attempted = Len(batch'.texts)
             /\ batch'.processed = Len(batch'.texts)
       /\ IF res'.op = "generateFullTextAudio"
          THEN /\ BatchRequests(fetches) = {}
               /\ batch'.processed = 0
               /\ batch'.attempted = IF batch'.texts = <<>> THEN 0 ELSE 1
          ELSE \/ /\ batch'.attempted = batch.attempted
                  /\ batch'.progress = batch.progress
                  /\ BatchRequests(fetches') \subseteq BatchRequests(fetches)
               \/ /\ batch'.attempted = batch.attempted + 1
                  /\ batch'.processed = batch.attempted
                  /\ batch'.processed = batch.processed + 1
                  /\ BatchRequests(fetches') \cap BatchRequests(fetches) = {}
                       \/ batch'.texts[batch'.attempted]
                             = batch.texts[batch.attempted]]_vars

\* the second of two requests is in flight: the first has resolved and
\* onProgress(2, 2) was the last call
SequentialBatchWitness ==
    /\ batch.status = "waiting"
    /\ batch.processed = 1
    /\ batch.progress = <<2, 2>>
    /\ Cardinality(BatchRequests(fetches)) = 1

\* the fields searchParams.get reads from the URL q of a key
KeyFields(q) ==
    <<searchParamsGet(q, <<"t", "e", "x", "t">>),
      searchParamsGet(q, <<"v", "o", "i", "c", "e">>),
      searchParamsGet(q, <<"s", "p", "e", "e", "d">>)>>

\* C31: the text, the voice and the speed of a request are read back from
\* its cache key, so that two requests with the same key are the same
\* request, and the text clearUnitCache reads from the key is the text of
\* the request; the key holds the encoded text once, between text= and
\* the first &.
CacheKeyInjectivity ==
    cacheKey.called =>
        /\ KeyFields(cacheKey.url)
              = <<cacheKey.text, cacheKey.voice, cacheKey.speed>>
        /\ KeyFields(cacheKey.key)
              = <<cacheKey.text, cacheKey.voice, cacheKey.speed>>
        /\ Split(cacheKey.key, "&")[1]
              = <<"t", "e", "x", "t", "=">>
                \o encodeURIComponent(cacheKey.text)
        /\ Len(Split(cacheKey.key, "&")) = 3

\* the key of the text '%20', which unencoded would be the key of ' '
CacheKeyInjectivityWitness ==
    /\ cacheKey.called
    /\ cacheKey.text = <<"%", "2", "0">>
    /\ cacheKey.voice = <<"w", " ", "2">>
    /\ SubSeq(cacheKey.url, 1, 10)
          = <<"t", "e", "x", "t", "=", "%", "2", "5", "2", "0">>

\* C40: the cache holds at most one entry under a key; a call of the
\* doubao adapter changes the entry only when it resolves, with a response
\* of code 3000 and non-empty data, and then the entry is the audio of
\* that response, in place of what was stored before; a call that is
\* rejected (the fetch fails, an error status, another code, no data)
\* leaves the entry as it is.
OnlySuccessfulAudioCached ==
    [][/\ Len(http'.entry) <= 1
       /\ (http.state = "waiting" /\ http'.state # "waiting") =>
             \/ http'.entry = http.entry
             \/ /\ http'.state = "resolved"
                /\ http'.backend = "doubao"
                /\ http'.response.ok
                /\ http'.response.code = 3000
                /\ http'.response.data \notin {NoData, <<>>}
                /\ http'.entry = <<http'.response.data>>
                /\ http'.bytes = http'.response.data
       /\ (http.state = "waiting" /\ http'.state = "rejected") =>
             http'.entry = http.entry]_vars

\* another call had stored its audio under the key, and the call has
\* resolved and stored its own in its place
OnlySuccessfulAudioCachedWitness ==
    /\ http.state = "resolved"
    /\ http.raced
    /\ http.entry = <<http.bytes>>
    /\ http.bytes = <<2, 3>>

\* the promise of the V3 call is resolved or rejected
PromiseSettled == promise.state \in {"resolved", "rejected"}

\* C32: whatever the server and the network do, the promise of a
\* callDoubaoTTS call settles; it is pending only while the timer is
\* pending, so it has settled when the timer has fired; and the socket of
\* a settled call, if the call made one, is closing or closed.
StreamingTermination ==
    /\ [](promise.state = "pending" => timeoutPending)
    /\ []((PromiseSettled /\ socket.readyState # "NONE")
             => socket.readyState \in {"CLOSING", "CLOSED"})
    /\ (promise.state = "pending" ~> PromiseSettled)

\* the connection was opened, the server sent nothing and did not close;
\* the timer has rejected the call and the socket is closing
StreamingTerminationWitness ==
    /\ ~timeoutPending
    /\ received = <<>>
    /\ Len(socket.sent) = 1
    /\ socket.readyState = "CLOSING"
    /\ promise.state = "rejected"
    /\ promise.error = Failure("TTS request timed out")

\* C33: when the server closes the connection of the ws_binary adapter
\* without a failure while the call is pending and chunks have been
\* received, the call resolves with the chunks concatenated in order; and
\* a pending call settles.
BinaryCloseHandling ==
    /\ [][(/\ socket.readyState = "CLOSING"
           /\ socket'.readyState = "CLOSED"
           /\ ~socket'.failing
           /\ promise.state = "pending"
           /\ Len(audioChunks) > 0)
          => (/\ promise'.state = "resolved"
              /\ promise'.bytes = mergeBuffers(audioChunks))]_vars
    /\ (promise.state = "pending" ~> PromiseSettled)

====
